---- MODULE Spec2Model ----
(***************************************************************************)
(* Model of the IBM i audit-journal forwarder                              *)
(* (src/testing_python_20250904.py): one IbmiJournalMonitor per host polls *)
(* QSYS2.DISPLAY_JOURNAL, forwards every row to the syslog logger and      *)
(* keeps an in-memory bookmark (last_receiver_name, last_sequence_number). *)
(*                                                                         *)
(* Receiver names are modelled by their rank in the string order of SQL    *)
(* ("R1" < "R2" are 1 < 2); the empty string has rank 0.                   *)
(* Characters of a configuration string are the symbols of Alphabet.       *)
(***************************************************************************)
EXTENDS Integers, Sequences, FiniteSets, TLC

VARIABLES
    journal,               \* per host: the rows DISPLAY_JOURNAL returns (a relation)
    env_types,             \* per host: the IBMI_JOURNAL_TYPES_<i> string
    journal_types,         \* per host: self.journal_types
    last_receiver_name,    \* per host: self.last_receiver_name
    last_sequence_number,  \* per host: self.last_sequence_number
    pc,                    \* per host: position of the monitor thread
    conn,                  \* per host: TRUE while the pyodbc connection is open
    batch,                 \* per host: the result set of cursor.execute
    count,                 \* per host: local count of _process_one_batch
    last_row,              \* per host: local last_row of _process_one_batch
    shutdown_event,        \* threading.Event shared by all monitors
    forwarded,             \* per host: first MaxForwarded rows passed to logger.log
    sent,                  \* per host: set of keys of all rows passed to logger.log
    cycle_bookmark,        \* per host: the bookmark when the current cycle began
    outcome,               \* per host: how the cycle just finished ended
    logged,                \* per host: the logger calls of the current cycle
    open_conns,            \* per host: number of open backend connections
    mainpc,                \* position of the main thread of the daemon
    env,                   \* the IBMI_*_<index> settings, by index
    index,                 \* __main__: index of the discovery loop
    monitors,              \* __main__: indexes a monitor was created for
    main_logged,           \* logger calls of the main thread
    exit_code,             \* exit code of the daemon process, None while it runs
    program,               \* which script runs: "daemon" or "oneshot" (testing.py)
    t_env,                 \* testing.py: the IBMI_* settings
    t_pc,                  \* testing.py: position of the script
    t_conn,                \* testing.py: conn of fetch_and_log_journal_entries
    t_cursor,              \* testing.py: cursor of fetch_and_log_journal_entries
    t_open,                \* testing.py: number of open backend connections
    t_rows,                \* testing.py: rows the query still has to return
    t_logged,              \* testing.py: the logger calls made
    t_result,              \* testing.py: return value of fetch_and_log_journal_entries
    t_exit,                \* testing.py: exit code, None while it runs
    stderr                 \* what the running script has printed to sys.stderr

main_vars == <<mainpc, env, index, monitors, main_logged, exit_code>>

t_vars == <<program, t_env, t_pc, t_conn, t_cursor, t_open, t_rows, t_logged,
            t_result, t_exit>>

vars == <<journal, env_types, journal_types, last_receiver_name,
          last_sequence_number, pc, conn, batch, count, last_row,
          shutdown_event, forwarded, sent, cycle_bookmark, outcome,
          logged, open_conns, main_vars, t_vars, stderr>>

----------------------------------------------------------------------------
(* Bounds of the model *)

MaxSeq == 2
MaxEntries == 2
MaxForwarded == 2
MaxRows == 2       \* rows the query of testing.py returns
MaxSeverity == 9   \* largest SYSLOG_SEVERITY value tried; the table ends at 7
MaxIndex == 2      \* largest index of IBMI_HOST_<index> settings tried

Hosts == {1}

----------------------------------------------------------------------------
(* Values *)

None == -1          \* Python None, for the two Optional bookmark fields
NoRow == <<>>       \* last_row = None
NULL == "NULL"      \* SQL NULL of syslog_event

Receivers == {1, 2}
Sequences == 0..MaxSeq
EntryTypes == {"AF", "CP"}
Alphabet == {"AF", "CP", ",", " "}

CRITICAL == 50
ERROR == 40
WARNING == 30
INFO == 20
DEBUG == 10

\* the rows a journal may hold; a row without an event is tried with one
\* entry type only
Rows ==
    {r \in [receiver_name : Receivers, sequence_number : Sequences,
            journal_entry_type : EntryTypes, syslog_event : {NULL, "evt"},
            syslog_severity : {4}] :
        r.syslog_event = NULL => r.journal_entry_type = "AF"}

Key(row) == <<row.receiver_name, row.sequence_number>>

\* the (receiver_id, sequence) order of the journal: receiver, then sequence
KeyLess(a, b) == a[1] < b[1] \/ (a[1] = b[1] /\ a[2] < b[2])

----------------------------------------------------------------------------
(* IbmiJournalMonitor.__init__: journal_types.split(','), strip, drop blanks *)

RECURSIVE Split(_)
\* str.split(','): the pieces between the commas, empty pieces included
Split(s) ==
    IF \A i \in 1..Len(s) : s[i] # ","
    THEN <<s>>
    ELSE LET i == CHOOSE k \in 1..Len(s) :
                      s[k] = "," /\ \A j \in 1..(k - 1) : s[j] # ","
         IN <<SubSeq(s, 1, i - 1)>> \o Split(SubSeq(s, i + 1, Len(s)))

RECURSIVE Strip(_)
\* str.strip(): leading and trailing blanks removed
Strip(t) ==
    IF t = <<>> THEN t
    ELSE IF Head(t) = " " THEN Strip(Tail(t))
    ELSE IF t[Len(t)] = " " THEN Strip(SubSeq(t, 1, Len(t) - 1))
    ELSE t

\* ParseTypes without the "if t.strip()" test: blank pieces are kept
ParseTypesKeepBlank(s) ==
    LET pieces == Split(s)
    IN [i \in 1..Len(pieces) |-> Strip(pieces[i])]

\* [t.strip() for t in journal_types.split(',') if t.strip()]
ParseTypes(s) ==
    LET pieces == Split(s)
        kept == SelectSeq(pieces, LAMBDA t : Strip(t) # <<>>)
    IN [i \in 1..Len(kept) |-> Strip(kept[i])]

----------------------------------------------------------------------------
(* _process_one_batch: the query *)

\* Python truth value of an Optional[str] (by rank) or Optional[int]
Truthy(x) == x # None /\ x # 0

\* "(receiver_name > ? OR (receiver_name = ? AND sequence_number > ?))",
\* appended only when both bookmark fields are truthy
CursorClause(h, row) ==
    IF Truthy(last_receiver_name[h]) /\ Truthy(last_sequence_number[h])
    THEN \/ row.receiver_name > last_receiver_name[h]
         \/ /\ row.receiver_name = last_receiver_name[h]
            /\ row.sequence_number > last_sequence_number[h]
    ELSE TRUE

\* "journal_entry_type IN (?, ...)", appended only when journal_types is non-empty
TypeClause(h, row) ==
    IF journal_types[h] # <<>>
    THEN \E i \in 1..Len(journal_types[h]) :
            journal_types[h][i] = <<row.journal_entry_type>>
    ELSE TRUE

\* the WHERE clause of the statement
Where(h, row) ==
    /\ row.syslog_event # NULL
    /\ CursorClause(h, row)
    /\ TypeClause(h, row)

RECURSIVE OrderBy(_)
\* "ORDER BY receiver_name, sequence_number" of a set of rows
OrderBy(S) ==
    IF S = {} THEN <<>>
    ELSE LET m == CHOOSE r \in S :
                      \A q \in S : q = r \/ KeyLess(Key(r), Key(q))
         IN <<m>> \o OrderBy(S \ {m})

\* the rows cursor.execute(sql, params) returns
Query(h) == OrderBy({row \in journal[h] : Where(h, row)})

\* SeverityLevel without the default: an unknown code is sent at DEBUG
SeverityLevelNoDefault(sev) ==
    CASE sev \in {0, 1, 2} -> CRITICAL
      [] sev = 3 -> ERROR
      [] sev = 4 -> WARNING
      [] sev \in {5, 6} -> INFO
      [] OTHER -> DEBUG

\* SEVERITY_MAP.get(syslog_severity, logging.INFO)
SeverityLevel(sev) ==
    CASE sev \in {0, 1, 2} -> CRITICAL
      [] sev = 3 -> ERROR
      [] sev = 4 -> WARNING
      [] sev \in {5, 6} -> INFO
      [] sev = 7 -> DEBUG
      [] OTHER -> INFO

----------------------------------------------------------------------------
(* Settings and logger calls *)

UNSET == "<unset>"  \* os.getenv of a variable that is not set

\* Python truth value of an Optional[str] setting
TruthyStr(x) == x # UNSET /\ x # ""

\* one index completely configured
Complete == [host |-> "h", user |-> "u", password |-> "p", driver |-> "d"]

\* one call of a logger method: what the syslog handler is given
LogCall(level, msg) == [level |-> level, msg |-> msg]

\* testing.py before it starts; it is not the script that runs
OneshotIdle ==
    /\ t_env = Complete
    /\ t_pc = "Idle"
    /\ t_conn = FALSE
    /\ t_cursor = FALSE
    /\ t_open = 0
    /\ t_rows = <<>>
    /\ t_logged = <<>>
    /\ t_result = "unset"
    /\ t_exit = None
    /\ stderr = <<>>

----------------------------------------------------------------------------
(* Initial state: one host, after IbmiJournalMonitor.__init__ and before     *)
(* its thread is started                                                     *)

\* the IBMI_JOURNAL_TYPES_<i> strings tried
TypeInputs ==
    {<<>>, <<" ", ",", " ">>, <<"AF">>, <<"AF", ",", " ", "CP">>}

\* the monitors' state after __init__, for the hosts H, each with the
\* entries rows in its journal
MonitorInit(H, rows) ==
    /\ journal = [h \in H |-> rows]
    /\ journal_types = [h \in H |-> ParseTypes(env_types[h])]
    /\ last_receiver_name = [h \in H |-> None]
    /\ last_sequence_number = [h \in H |-> None]
    /\ pc = [h \in H |-> "Idle"]
    /\ conn = [h \in H |-> FALSE]
    /\ batch = [h \in H |-> <<>>]
    /\ count = [h \in H |-> 0]
    /\ last_row = [h \in H |-> NoRow]
    /\ shutdown_event = FALSE
    /\ forwarded = [h \in H |-> <<>>]
    /\ sent = [h \in H |-> {}]
    /\ cycle_bookmark = [h \in H |-> <<None, None>>]
    /\ outcome = [h \in H |-> "none"]
    /\ logged = [h \in H |-> <<>>]
    /\ open_conns = [h \in H |-> 0]

Init ==
    /\ env_types \in [Hosts -> TypeInputs]
    /\ MonitorInit(Hosts, {})
    /\ program = "daemon"
    /\ mainpc = "start"
    /\ env = <<Complete>>
    /\ index = 2
    /\ monitors = <<1>>
    /\ main_logged = <<LogCall(INFO, "Syslog handler configured")>>
    /\ exit_code = None
    /\ OneshotIdle

Bookmark(h) == <<last_receiver_name[h], last_sequence_number[h]>>

\* the thread of host h has left start()
Terminated(h) == pc[h] \in {"Stopped", "Crashed"}

----------------------------------------------------------------------------
(* The journal of a host: the backend appends entries in increasing         *)
(* (receiver_name, sequence_number) order                                   *)

JournalAppend(h) ==
    /\ Cardinality(journal[h]) < MaxEntries
    /\ \E row \in Rows :
          /\ \A q \in journal[h] : KeyLess(Key(q), Key(row))
          /\ journal' = [journal EXCEPT ![h] = @ \cup {row}]
    /\ UNCHANGED <<env_types, journal_types, last_receiver_name,
                   last_sequence_number, pc, conn, batch, count, last_row,
                   shutdown_event, forwarded, sent, cycle_bookmark, outcome,
                   logged, open_conns, main_vars, t_vars, stderr>>

----------------------------------------------------------------------------
(* IbmiJournalMonitor.start and _process_one_batch *)

\* the main thread starts the next thread of its list, which enters
\* start(): logger.info("Monitor thread started.")
Start(h) ==
    /\ mainpc = "start"
    /\ pc[h] = "Idle"
    /\ \E i \in 1..Len(monitors) :
          /\ monitors[i] = h
          /\ \A j \in 1..(i - 1) : pc[monitors[j]] # "Idle"
          /\ mainpc' = IF i = Len(monitors) THEN "join" ELSE "start"
    /\ pc' = [pc EXCEPT ![h] = "LoopTest"]
    /\ logged' = [logged EXCEPT ![h] =
                     Append(@, LogCall(INFO, "Monitor thread started"))]
    /\ UNCHANGED <<journal, env_types, journal_types, last_receiver_name,
                   last_sequence_number, conn, batch, count, last_row,
                   shutdown_event, forwarded, sent, cycle_bookmark, outcome,
                   open_conns, env, index, monitors, main_logged, exit_code,
                   t_vars, stderr>>

\* "while not shutdown_event.is_set()": leave the loop or begin a cycle
LoopTest(h) ==
    /\ pc[h] = "LoopTest"
    /\ pc' = [pc EXCEPT ![h] = IF shutdown_event THEN "Stopped" ELSE "Connect"]
    /\ logged' = [logged EXCEPT ![h] = IF shutdown_event THEN @ ELSE <<>>]
    /\ UNCHANGED <<journal, env_types, journal_types, last_receiver_name,
                   last_sequence_number, conn, batch, count, last_row,
                   shutdown_event, forwarded, sent, cycle_bookmark, outcome,
                   open_conns, main_vars, t_vars, stderr>>

\* pyodbc.connect succeeds
ConnectOK(h) ==
    /\ pc[h] = "Connect"
    /\ conn' = [conn EXCEPT ![h] = TRUE]
    /\ open_conns' = [open_conns EXCEPT ![h] = @ + 1]
    /\ pc' = [pc EXCEPT ![h] = "Execute"]
    /\ UNCHANGED <<journal, env_types, journal_types, last_receiver_name,
                   last_sequence_number, batch, count, last_row,
                   shutdown_event, forwarded, sent, cycle_bookmark, outcome,
                   logged, main_vars, t_vars, stderr>>

\* pyodbc.connect raises pyodbc.Error: logger.exception, then
\* _process_one_batch returns
ConnectFail(h) ==
    /\ pc[h] = "Connect"
    /\ outcome' = [outcome EXCEPT ![h] = "ConnectionError"]
    /\ logged' = [logged EXCEPT ![h] =
                     Append(@, LogCall(ERROR, "Database connection failed"))]
    /\ pc' = [pc EXCEPT ![h] = "Waiting"]
    /\ UNCHANGED <<journal, env_types, journal_types, last_receiver_name,
                   last_sequence_number, conn, batch, count, last_row,
                   shutdown_event, forwarded, sent, cycle_bookmark,
                   open_conns, main_vars, t_vars, stderr>>

\* cursor.execute(sql, params) succeeds; count = 0, last_row = None
ExecuteOK(h) ==
    /\ pc[h] = "Execute"
    /\ batch' = [batch EXCEPT ![h] = Query(h)]
    /\ count' = [count EXCEPT ![h] = 0]
    /\ last_row' = [last_row EXCEPT ![h] = NoRow]
    /\ pc' = [pc EXCEPT ![h] = "Iterate"]
    /\ UNCHANGED <<journal, env_types, journal_types, last_receiver_name,
                   last_sequence_number, conn, shutdown_event, forwarded,
                   sent, cycle_bookmark, outcome, logged, open_conns,
                   main_vars, t_vars, stderr>>

\* LeaveBatch without the finally clause: the connection stays open
LeaveBatchNoClose(h) ==
    /\ conn' = [conn EXCEPT ![h] = FALSE]
    /\ UNCHANGED open_conns
    /\ batch' = [batch EXCEPT ![h] = <<>>]
    /\ count' = [count EXCEPT ![h] = 0]
    /\ last_row' = [last_row EXCEPT ![h] = NoRow]

\* the locals are dropped and the connection is closed
\* (finally: if conn: conn.close())
LeaveBatch(h) ==
    /\ conn' = [conn EXCEPT ![h] = FALSE]
    /\ open_conns' = [open_conns EXCEPT ![h] = IF conn[h] THEN @ - 1 ELSE @]
    /\ batch' = [batch EXCEPT ![h] = <<>>]
    /\ count' = [count EXCEPT ![h] = 0]
    /\ last_row' = [last_row EXCEPT ![h] = NoRow]

\* cursor.execute raises pyodbc.Error: except clause (logger.exception),
\* finally, return
ExecuteFail(h) ==
    /\ pc[h] = "Execute"
    /\ outcome' = [outcome EXCEPT ![h] = "QueryError"]
    /\ logged' = [logged EXCEPT ![h] =
                     Append(@, LogCall(ERROR, "Database query or processing failed"))]
    /\ LeaveBatch(h)
    /\ pc' = [pc EXCEPT ![h] = "Waiting"]
    /\ UNCHANGED <<journal, env_types, journal_types, last_receiver_name,
                   last_sequence_number, shutdown_event, forwarded, sent,
                   cycle_bookmark, main_vars, t_vars, stderr>>

\* the record of one logger.log(log_level, syslog_event) call
Record(row) ==
    [level |-> SeverityLevel(row.syslog_severity), row |-> row]

\* ForwardRow with the bookmark moved inside the loop, row by row
ForwardRowBookmarks(h) ==
    /\ pc[h] = "Iterate"
    /\ count[h] < Len(batch[h])
    /\ LET row == batch[h][count[h] + 1]
       IN /\ forwarded' = [forwarded EXCEPT ![h] =
                 IF Len(@) < MaxForwarded THEN Append(@, Record(row)) ELSE @]
          /\ sent' = [sent EXCEPT ![h] = @ \cup {Key(row)}]
          /\ logged' = [logged EXCEPT ![h] =
                 Append(@, LogCall(Record(row).level, row.syslog_event))]
          /\ last_row' = [last_row EXCEPT ![h] = row]
          /\ count' = [count EXCEPT ![h] = @ + 1]
          /\ last_receiver_name' =
                [last_receiver_name EXCEPT ![h] = row.receiver_name]
          /\ last_sequence_number' =
                [last_sequence_number EXCEPT ![h] = row.sequence_number]
    /\ UNCHANGED <<journal, env_types, journal_types, pc, conn, batch,
                   shutdown_event, cycle_bookmark, outcome, open_conns,
                   main_vars, t_vars, stderr>>

\* ForwardRow that gives up the batch when the shutdown event is set
ForwardRowAborts(h) ==
    /\ pc[h] = "Iterate"
    /\ count[h] < Len(batch[h])
    /\ IF shutdown_event
       THEN /\ LeaveBatch(h)
            /\ pc' = [pc EXCEPT ![h] = "Stopped"]
            /\ UNCHANGED <<forwarded, sent, logged>>
       ELSE LET row == batch[h][count[h] + 1]
            IN /\ forwarded' = [forwarded EXCEPT ![h] =
                      IF Len(@) < MaxForwarded THEN Append(@, Record(row)) ELSE @]
               /\ sent' = [sent EXCEPT ![h] = @ \cup {Key(row)}]
               /\ logged' = [logged EXCEPT ![h] =
                      Append(@, LogCall(Record(row).level, row.syslog_event))]
               /\ last_row' = [last_row EXCEPT ![h] = row]
               /\ count' = [count EXCEPT ![h] = @ + 1]
               /\ UNCHANGED <<pc, conn, batch, open_conns>>
    /\ UNCHANGED <<journal, env_types, journal_types, last_receiver_name,
                   last_sequence_number, shutdown_event, cycle_bookmark,
                   outcome, main_vars, t_vars, stderr>>

\* one pass of "for row in cursor": the row is sent with logger.log
ForwardRow(h) ==
    /\ pc[h] = "Iterate"
    /\ count[h] < Len(batch[h])
    /\ LET row == batch[h][count[h] + 1]
       IN /\ forwarded' = [forwarded EXCEPT ![h] =
                 IF Len(@) < MaxForwarded THEN Append(@, Record(row)) ELSE @]
          /\ sent' = [sent EXCEPT ![h] = @ \cup {Key(row)}]
          /\ logged' = [logged EXCEPT ![h] =
                 Append(@, LogCall(Record(row).level, row.syslog_event))]
          /\ last_row' = [last_row EXCEPT ![h] = row]
          /\ count' = [count EXCEPT ![h] = @ + 1]
    /\ UNCHANGED <<journal, env_types, journal_types, last_receiver_name,
                   last_sequence_number, pc, conn, batch, shutdown_event,
                   cycle_bookmark, outcome, open_conns, main_vars, t_vars, stderr>>

\* ForwardRaises with an exception that ends the whole process: every
\* other monitor thread is gone as well
ForwardRaisesEndsAll(h) ==
    /\ pc[h] = "Iterate"
    /\ count[h] < Len(batch[h])
    /\ outcome' = [outcome EXCEPT ![h] = "DeliveryError"]
    /\ conn' = [g \in DOMAIN conn |-> FALSE]
    /\ open_conns' = [g \in DOMAIN open_conns |-> 0]
    /\ batch' = [g \in DOMAIN batch |-> <<>>]
    /\ count' = [g \in DOMAIN count |-> 0]
    /\ last_row' = [g \in DOMAIN last_row |-> NoRow]
    /\ pc' = [g \in DOMAIN pc |-> IF pc[g] = "Idle" THEN "Idle" ELSE "Crashed"]
    /\ UNCHANGED <<journal, env_types, journal_types, last_receiver_name,
                   last_sequence_number, shutdown_event, forwarded, sent,
                   cycle_bookmark, logged, main_vars, t_vars, stderr>>

\* logger.log raises for a row: the exception is no pyodbc.Error, so only
\* the finally clause runs and the exception leaves start(): the thread ends
ForwardRaises(h) ==
    /\ pc[h] = "Iterate"
    /\ count[h] < Len(batch[h])
    /\ outcome' = [outcome EXCEPT ![h] = "DeliveryError"]
    /\ LeaveBatch(h)
    /\ pc' = [pc EXCEPT ![h] = "Crashed"]
    /\ UNCHANGED <<journal, env_types, journal_types, last_receiver_name,
                   last_sequence_number, shutdown_event, forwarded, sent,
                   cycle_bookmark, logged, main_vars, t_vars, stderr>>

\* fetching the next row raises pyodbc.Error: except clause
\* (logger.exception), finally, return
FetchFail(h) ==
    /\ pc[h] = "Iterate"
    /\ outcome' = [outcome EXCEPT ![h] = "QueryError"]
    /\ logged' = [logged EXCEPT ![h] =
                     Append(@, LogCall(ERROR, "Database query or processing failed"))]
    /\ LeaveBatch(h)
    /\ pc' = [pc EXCEPT ![h] = "Waiting"]
    /\ UNCHANGED <<journal, env_types, journal_types, last_receiver_name,
                   last_sequence_number, shutdown_event, forwarded, sent,
                   cycle_bookmark, main_vars, t_vars, stderr>>

\* EndOfRows with the bookmark taken from the first row of the batch
EndOfRowsFirstRow(h) ==
    /\ pc[h] = "Iterate"
    /\ count[h] = Len(batch[h])
    /\ IF count[h] = 0
       THEN /\ outcome' = [outcome EXCEPT ![h] = "Empty"]
            /\ UNCHANGED <<last_receiver_name, last_sequence_number, logged>>
       ELSE /\ outcome' = [outcome EXCEPT ![h] = "Delivered"]
            /\ last_receiver_name' =
                  [last_receiver_name EXCEPT ![h] = batch[h][1].receiver_name]
            /\ last_sequence_number' =
                  [last_sequence_number EXCEPT ![h] = batch[h][1].sequence_number]
            /\ logged' = [logged EXCEPT ![h] =
                             Append(@, LogCall(INFO, "Processed entries"))]
    /\ LeaveBatch(h)
    /\ pc' = [pc EXCEPT ![h] = "Waiting"]
    /\ UNCHANGED <<journal, env_types, journal_types, shutdown_event,
                   forwarded, sent, cycle_bookmark, main_vars, t_vars, stderr>>

\* EndOfRows that reports "Processed 0 entries" for an empty batch as well
EndOfRowsLogsEmpty(h) ==
    /\ pc[h] = "Iterate"
    /\ count[h] = Len(batch[h])
    /\ outcome' = [outcome EXCEPT ![h] =
                      IF count[h] = 0 THEN "Empty" ELSE "Delivered"]
    /\ IF last_row[h] # NoRow
       THEN /\ last_receiver_name' =
                  [last_receiver_name EXCEPT ![h] = last_row[h].receiver_name]
            /\ last_sequence_number' =
                  [last_sequence_number EXCEPT ![h] = last_row[h].sequence_number]
       ELSE UNCHANGED <<last_receiver_name, last_sequence_number>>
    /\ logged' = [logged EXCEPT ![h] =
                     Append(@, LogCall(INFO, "Processed entries"))]
    /\ LeaveBatch(h)
    /\ pc' = [pc EXCEPT ![h] = "Waiting"]
    /\ UNCHANGED <<journal, env_types, journal_types, shutdown_event,
                   forwarded, sent, cycle_bookmark, main_vars, t_vars, stderr>>

\* the cursor is exhausted: "if count == 0: return", else the bookmark
\* becomes the last row's (RECEIVER_NAME, int(SEQUENCE_NUMBER)) and
\* logger.info reports the new state
EndOfRows(h) ==
    /\ pc[h] = "Iterate"
    /\ count[h] = Len(batch[h])
    /\ IF count[h] = 0
       THEN /\ outcome' = [outcome EXCEPT ![h] = "Empty"]
            /\ UNCHANGED <<last_receiver_name, last_sequence_number, logged>>
       ELSE /\ outcome' = [outcome EXCEPT ![h] = "Delivered"]
            /\ IF last_row[h] # NoRow
               THEN /\ last_receiver_name' =
                          [last_receiver_name EXCEPT ![h] = last_row[h].receiver_name]
                    /\ last_sequence_number' =
                          [last_sequence_number EXCEPT ![h] = last_row[h].sequence_number]
                    /\ logged' = [logged EXCEPT ![h] =
                                     Append(@, LogCall(INFO, "Processed entries"))]
               ELSE UNCHANGED <<last_receiver_name, last_sequence_number, logged>>
    /\ LeaveBatch(h)
    /\ pc' = [pc EXCEPT ![h] = "Waiting"]
    /\ UNCHANGED <<journal, env_types, journal_types, shutdown_event,
                   forwarded, sent, cycle_bookmark, main_vars, t_vars, stderr>>

\* shutdown_event.wait(self.interval) returns: timeout, or the event is set.
\* The cycle is over: its outcome and logger calls are forgotten and the
\* bookmark it leaves is the one the next cycle begins with.
Wait(h) ==
    /\ pc[h] = "Waiting"
    /\ pc' = [pc EXCEPT ![h] = "LoopTest"]
    /\ outcome' = [outcome EXCEPT ![h] = "none"]
    /\ cycle_bookmark' = [cycle_bookmark EXCEPT ![h] = Bookmark(h)]
    /\ logged' = [logged EXCEPT ![h] = <<>>]
    /\ UNCHANGED <<journal, env_types, journal_types, last_receiver_name,
                   last_sequence_number, conn, batch, count, last_row,
                   shutdown_event, forwarded, sent, open_conns, main_vars,
                   t_vars, stderr>>

----------------------------------------------------------------------------
(* __main__ of the daemon: join and shutdown *)

\* KeyboardInterrupt while the main thread joins the monitor threads:
\* shutdown_event.set(), then the threads are joined again
KeyboardInterrupt ==
    /\ mainpc = "join"
    /\ ~shutdown_event
    /\ shutdown_event' = TRUE
    /\ mainpc' = "rejoin"
    /\ UNCHANGED <<journal, env_types, journal_types, last_receiver_name,
                   last_sequence_number, pc, conn, batch, count, last_row,
                   forwarded, sent, cycle_bookmark, outcome, logged,
                   open_conns, env, index, monitors, main_logged, exit_code,
                   t_vars, stderr>>

\* every thread.join() has returned: the final message, logger.info("Daemon
\* stopped."), and the script ends
MainExit ==
    /\ mainpc \in {"join", "rejoin"}
    /\ \A i \in 1..Len(monitors) : Terminated(monitors[i])
    /\ mainpc' = "exited"
    /\ main_logged' = Append(main_logged, LogCall(INFO, "Daemon stopped"))
    /\ exit_code' = 0
    /\ UNCHANGED <<journal, env_types, journal_types, last_receiver_name,
                   last_sequence_number, pc, conn, batch, count, last_row,
                   shutdown_event, forwarded, sent, cycle_bookmark, outcome,
                   logged, open_conns, env, index, monitors, t_vars, stderr>>

Next ==
    \/ KeyboardInterrupt
    \/ MainExit
    \/ \E h \in Hosts :
          \/ JournalAppend(h)
          \/ Start(h)
          \/ LoopTest(h)
          \/ ConnectOK(h)
          \/ ConnectFail(h)
          \/ ExecuteOK(h)
          \/ ExecuteFail(h)
          \/ ForwardRow(h)
          \/ ForwardRaises(h)
          \/ FetchFail(h)
          \/ EndOfRows(h)
          \/ Wait(h)

Spec == Init /\ [][Next]_vars

\* Scheduling: a running thread takes its next step; the backend calls do
\* not fail forever, so each call that can succeed infinitely often does.
Fairness ==
    \A h \in Hosts :
       /\ WF_vars(Start(h))
       /\ WF_vars(LoopTest(h))
       /\ WF_vars(Wait(h))
       /\ SF_vars(ConnectOK(h))
       /\ SF_vars(ExecuteOK(h))
       /\ \A k \in 0..MaxEntries :
             /\ SF_vars(count[h] = k /\ ForwardRow(h))
             /\ SF_vars(count[h] = k /\ EndOfRows(h))

LiveSpec == Init /\ [][Next]_vars /\ Fairness

----------------------------------------------------------------------------
(* testing.py: one connection, one query over the whole journal, every row *)
(* sent to syslog, then the script ends                                    *)

\* the SYSLOG_SEVERITY values tried: the RFC 5424 codes and codes beside them
Severities == (0 - 1)..MaxSeverity

\* severity_map.get(syslog_severity, logging.INFO) of testing.py
severity_map(sev) ==
    CASE sev \in {0, 1, 2} -> CRITICAL
      [] sev = 3 -> ERROR
      [] sev = 4 -> WARNING
      [] sev \in {5, 6} -> INFO
      [] sev = 7 -> DEBUG
      [] OTHER -> INFO

\* the rows of the query of testing.py: syslog_severity, syslog_event
TRows == [syslog_event : {"evt"}, syslog_severity : Severities]

RECURSIVE SeqsUpTo(_, _)
\* the sequences over S of length at most n
SeqsUpTo(S, n) ==
    IF n = 0 THEN {<<>>}
    ELSE LET shorter == SeqsUpTo(S, n - 1)
         IN shorter \cup {Append(q, x) : q \in shorter, x \in S}

\* the IBMI_HOST, IBMI_USER, IBMI_PASSWORD, IBMI_ODBC_DRIVER settings tried
TEnvInputs ==
    {Complete,
     [Complete EXCEPT !.host = UNSET],
     [Complete EXCEPT !.user = ""],
     [Complete EXCEPT !.password = UNSET],
     [Complete EXCEPT !.driver = ""]}

\* all([ibmi_host, ibmi_user, ibmi_password, ibmi_driver])
TAllSet ==
    /\ TruthyStr(t_env.host)
    /\ TruthyStr(t_env.user)
    /\ TruthyStr(t_env.password)
    /\ TruthyStr(t_env.driver)

\* the daemon's variables, with monitors for H never created, while
\* testing.py is the script that runs
DaemonOff(H) ==
    /\ env_types = [h \in H |-> <<>>]
    /\ MonitorInit(H, {})
    /\ mainpc = "off"
    /\ env = <<>>
    /\ index = 1
    /\ monitors = <<>>
    /\ main_logged = <<>>
    /\ exit_code = None
    /\ stderr = <<>>

daemon_vars == <<journal, env_types, journal_types, last_receiver_name,
                 last_sequence_number, pc, conn, batch, count, last_row,
                 shutdown_event, forwarded, sent, cycle_bookmark, outcome,
                 logged, open_conns, main_vars>>

\* __main__: logger.warning, the settings are read and tested;
\* sys.exit(1) after logger.critical when one is missing
TMain ==
    /\ program = "oneshot"
    /\ t_pc = "Idle"
    /\ IF TAllSet
       THEN /\ t_logged' = Append(t_logged, LogCall(WARNING, "warning message"))
            /\ t_pc' = "Connect"
            /\ UNCHANGED <<t_exit, stderr>>
       ELSE /\ t_logged' = t_logged \o <<LogCall(WARNING, "warning message"),
                                          LogCall(CRITICAL, "settings missing")>>
            /\ stderr' = Append(stderr, "settings missing")
            /\ t_pc' = "Exited"
            /\ t_exit' = 1
    /\ UNCHANGED <<daemon_vars, program, t_env, t_conn, t_cursor, t_open,
                   t_rows, t_result>>

\* finally of testing.py without conn.close()
TFinallyNoClose ==
    /\ t_conn' = FALSE
    /\ t_cursor' = FALSE
    /\ UNCHANGED t_open

\* finally: if conn: (if cursor: cursor.close()); conn.close()
TFinally ==
    /\ t_conn' = FALSE
    /\ t_cursor' = FALSE
    /\ t_open' = IF t_conn THEN t_open - 1 ELSE t_open

\* an exception in the try block: pyodbc.Error and Exception are both
\* answered with logger.critical and return False; the finally clause runs
\* and the script ends
TFail(msg) ==
    /\ t_logged' = Append(t_logged, LogCall(CRITICAL, msg))
    /\ stderr' = Append(stderr, msg)
    /\ t_result' = "False"
    /\ TFinally
    /\ t_pc' = "Exited"
    /\ t_exit' = 0
    /\ UNCHANGED <<daemon_vars, program, t_env, t_rows>>

\* pyodbc.connect(conn_str) succeeds
TConnectOK ==
    /\ program = "oneshot"
    /\ t_pc = "Connect"
    /\ t_conn' = TRUE
    /\ t_open' = t_open + 1
    /\ t_pc' = "Cursor"
    /\ UNCHANGED <<stderr, daemon_vars, program, t_env, t_cursor, t_rows, t_logged,
                   t_result, t_exit>>

\* pyodbc.connect raises pyodbc.Error
TConnectFail ==
    /\ program = "oneshot"
    /\ t_pc = "Connect"
    /\ TFail("Database error occurred")

\* conn.cursor() succeeds; logger.info("Successfully connected ...")
TCursorOK ==
    /\ program = "oneshot"
    /\ t_pc = "Cursor"
    /\ t_cursor' = TRUE
    /\ t_logged' = Append(t_logged, LogCall(INFO, "Successfully connected"))
    /\ t_pc' = "Iterate"
    /\ UNCHANGED <<stderr, daemon_vars, program, t_env, t_conn, t_open, t_rows,
                   t_result, t_exit>>

\* conn.cursor() raises pyodbc.Error: cursor is still None in finally
TCursorFail ==
    /\ program = "oneshot"
    /\ t_pc = "Cursor"
    /\ TFail("Database error occurred")

\* one pass of "for row in cursor.execute(sql)": logger.log(log_level, ...)
TForwardRow ==
    /\ program = "oneshot"
    /\ t_pc = "Iterate"
    /\ t_rows # <<>>
    /\ t_logged' = Append(t_logged,
                      LogCall(severity_map(Head(t_rows).syslog_severity),
                              Head(t_rows).syslog_event))
    /\ t_rows' = Tail(t_rows)
    /\ UNCHANGED <<stderr, daemon_vars, program, t_env, t_pc, t_conn, t_cursor,
                   t_open, t_result, t_exit>>

\* cursor.execute or the fetch of the next row raises pyodbc.Error
TQueryFail ==
    /\ program = "oneshot"
    /\ t_pc = "Iterate"
    /\ TFail("Database error occurred")

\* logger.log raises for a row: except Exception
TForwardRaises ==
    /\ program = "oneshot"
    /\ t_pc = "Iterate"
    /\ t_rows # <<>>
    /\ TFail("An error occurred")

\* the rows are exhausted: logger.info("Finished processing ..."),
\* return True, finally, and the script ends
TEndOfRows ==
    /\ program = "oneshot"
    /\ t_pc = "Iterate"
    /\ t_rows = <<>>
    /\ t_logged' = Append(t_logged, LogCall(INFO, "Finished processing"))
    /\ t_result' = "True"
    /\ TFinally
    /\ t_pc' = "Exited"
    /\ t_exit' = 0
    /\ UNCHANGED <<stderr, daemon_vars, program, t_env, t_rows>>

----------------------------------------------------------------------------
(* Both programs, with every severity code: either the daemon runs with    *)
(* one host, or testing.py runs                                            *)

\* the one journal entry of the daemon's host in this specification
SeverityRows ==
    [receiver_name : {1}, sequence_number : {1}, journal_entry_type : {"AF"},
     syslog_event : {"evt"}, syslog_severity : Severities]

\* the backend appends an entry of any severity to the empty journal
JournalAppendSeverity(h) ==
    /\ program = "daemon"
    /\ journal[h] = {}
    /\ \E row \in SeverityRows : journal' = [journal EXCEPT ![h] = {row}]
    /\ UNCHANGED <<env_types, journal_types, last_receiver_name,
                   last_sequence_number, pc, conn, batch, count, last_row,
                   shutdown_event, forwarded, sent, cycle_bookmark, outcome,
                   logged, open_conns, main_vars, t_vars, stderr>>

ProgramsInit ==
    \/ /\ program = "daemon"
       /\ env_types = [h \in Hosts |-> <<>>]
       /\ MonitorInit(Hosts, {})
       /\ mainpc = "start"
       /\ env = <<Complete>>
       /\ index = 2
       /\ monitors = <<1>>
       /\ main_logged = <<LogCall(INFO, "Syslog handler configured")>>
       /\ exit_code = None
       /\ OneshotIdle
    \/ /\ program = "oneshot"
       /\ DaemonOff(Hosts)
       /\ t_env \in TEnvInputs
       /\ t_pc = "Idle"
       /\ t_conn = FALSE
       /\ t_cursor = FALSE
       /\ t_open = 0
       /\ t_rows \in SeqsUpTo(TRows, MaxRows)
       /\ t_logged = <<>>
       /\ t_result = "unset"
       /\ t_exit = None

ProgramsNext ==
    \/ KeyboardInterrupt
    \/ MainExit
    \/ \E h \in Hosts :
          \/ JournalAppendSeverity(h)
          \/ Start(h)
          \/ LoopTest(h)
          \/ ConnectOK(h)
          \/ ConnectFail(h)
          \/ ExecuteOK(h)
          \/ ExecuteFail(h)
          \/ ForwardRow(h)
          \/ ForwardRaises(h)
          \/ FetchFail(h)
          \/ EndOfRows(h)
          \/ Wait(h)
    \/ TMain
    \/ TConnectOK
    \/ TConnectFail
    \/ TCursorOK
    \/ TCursorFail
    \/ TForwardRow
    \/ TQueryFail
    \/ TForwardRaises
    \/ TEndOfRows

ProgramsSpec == ProgramsInit /\ [][ProgramsNext]_vars

----------------------------------------------------------------------------
(* The daemon from process start: host discovery, one thread per monitor,   *)
(* several hosts; or testing.py from process start                          *)

\* the indexes that carry settings
Indexes == 1..MaxIndex

\* the settings of one index that are tried
EnvInputs ==
    {e \in [host : {UNSET, "", "h"}, user : {UNSET, "u"},
            password : {"", "p"}, driver : {UNSET, "d"}] :
        Cardinality({f \in {"user", "password", "driver"} : ~TruthyStr(e[f])}) <= 1}

\* os.getenv of the settings of index k
GetEnv(k) ==
    IF k \in 1..Len(env) THEN env[k]
    ELSE [host |-> UNSET, user |-> UNSET, password |-> UNSET, driver |-> UNSET]

\* all([user, password, driver]) for index k
AllSet(k) ==
    /\ TruthyStr(GetEnv(k).user)
    /\ TruthyStr(GetEnv(k).password)
    /\ TruthyStr(GetEnv(k).driver)

\* logger.error("Configuration for host ... (IBMI_HOST_<k>) is incomplete.
\* Skipping.")
SkipCall(k) ==
    [level |-> ERROR, msg |-> "Configuration is incomplete. Skipping", index |-> k]

\* the entry the journal of every host holds in this specification
FirstRow ==
    [receiver_name |-> 1, sequence_number |-> 1, journal_entry_type |-> "AF",
     syslog_event |-> "evt", syslog_severity |-> 4]

monitor_vars == <<journal, env_types, journal_types, last_receiver_name,
                  last_sequence_number, pc, conn, batch, count, last_row,
                  forwarded, sent, cycle_bookmark, outcome, logged,
                  open_conns>>

\* "if not host: break" with monitors found: on to the threads
DiscoverBreak ==
    /\ program = "daemon"
    /\ mainpc = "discover"
    /\ ~TruthyStr(GetEnv(index).host)
    /\ monitors # <<>>
    /\ mainpc' = "start"
    /\ UNCHANGED <<monitor_vars, shutdown_event, env, index, monitors,
                   main_logged, exit_code, t_vars, stderr>>

\* NoMonitors that goes on to the join with an empty thread list
NoMonitorsGoesOn ==
    /\ program = "daemon"
    /\ mainpc = "discover"
    /\ ~TruthyStr(GetEnv(index).host)
    /\ monitors = <<>>
    /\ mainpc' = "join"
    /\ UNCHANGED <<monitor_vars, shutdown_event, env, index, monitors,
                   main_logged, exit_code, t_vars, stderr>>

\* "if not host: break" with no monitor found: "if not monitors:" prints to
\* sys.stderr and sys.exit(1)
NoMonitors ==
    /\ program = "daemon"
    /\ mainpc = "discover"
    /\ ~TruthyStr(GetEnv(index).host)
    /\ monitors = <<>>
    /\ stderr' = Append(stderr, "No host configurations found")
    /\ exit_code' = 1
    /\ mainpc' = "exited"
    /\ UNCHANGED <<monitor_vars, shutdown_event, env, index, monitors,
                   main_logged, t_vars>>

\* DiscoverSkip that ends the scan at an incomplete index
DiscoverSkipStops ==
    /\ program = "daemon"
    /\ mainpc = "discover"
    /\ TruthyStr(GetEnv(index).host)
    /\ ~AllSet(index)
    /\ main_logged' = Append(main_logged, SkipCall(index))
    /\ index' = MaxIndex + 1
    /\ UNCHANGED <<monitor_vars, shutdown_event, mainpc, env, monitors,
                   exit_code, t_vars, stderr>>

\* the host is set but user, password or driver is not: logger.error,
\* index += 1, continue
DiscoverSkip ==
    /\ program = "daemon"
    /\ mainpc = "discover"
    /\ TruthyStr(GetEnv(index).host)
    /\ ~AllSet(index)
    /\ main_logged' = Append(main_logged, SkipCall(index))
    /\ index' = index + 1
    /\ UNCHANGED <<monitor_vars, shutdown_event, mainpc, env, monitors,
                   exit_code, t_vars, stderr>>

\* the index is completely configured: IbmiJournalMonitor(...),
\* monitors.append(monitor), index += 1
DiscoverCreate ==
    /\ program = "daemon"
    /\ mainpc = "discover"
    /\ TruthyStr(GetEnv(index).host)
    /\ AllSet(index)
    /\ monitors' = Append(monitors, index)
    /\ index' = index + 1
    /\ UNCHANGED <<monitor_vars, shutdown_event, mainpc, env, main_logged,
                   exit_code, t_vars, stderr>>

SupervisorInit ==
    \/ /\ program = "daemon"
       /\ env_types = [h \in Indexes |-> <<>>]
       /\ MonitorInit(Indexes, {FirstRow})
       /\ mainpc = "discover"
       /\ env \in [Indexes -> EnvInputs]
       /\ index = 1
       /\ monitors = <<>>
       /\ main_logged = <<LogCall(INFO, "Syslog handler configured")>>
       /\ exit_code = None
       /\ OneshotIdle
    \/ /\ program = "oneshot"
       /\ DaemonOff(Indexes)
       /\ t_env \in TEnvInputs
       /\ t_pc = "Idle"
       /\ t_conn = FALSE
       /\ t_cursor = FALSE
       /\ t_open = 0
       /\ t_rows \in SeqsUpTo({r \in TRows : r.syslog_severity = 4}, 1)
       /\ t_logged = <<>>
       /\ t_result = "unset"
       /\ t_exit = None

SupervisorNext ==
    \/ DiscoverBreak
    \/ NoMonitors
    \/ DiscoverSkip
    \/ DiscoverCreate
    \/ KeyboardInterrupt
    \/ MainExit
    \/ \E h \in Indexes :
          \/ Start(h)
          \/ LoopTest(h)
          \/ ConnectOK(h)
          \/ ConnectFail(h)
          \/ ExecuteOK(h)
          \/ ExecuteFail(h)
          \/ ForwardRow(h)
          \/ ForwardRaises(h)
          \/ FetchFail(h)
          \/ EndOfRows(h)
          \/ Wait(h)
    \/ TMain
    \/ TConnectOK
    \/ TConnectFail
    \/ TCursorOK
    \/ TCursorFail
    \/ TForwardRow
    \/ TQueryFail
    \/ TForwardRaises
    \/ TEndOfRows

SupervisorSpec == SupervisorInit /\ [][SupervisorNext]_vars

\* Scheduling: the main thread and every running monitor thread take their
\* next step; backend calls that can succeed infinitely often do succeed.
SupervisorFairness ==
    /\ WF_vars(DiscoverBreak)
    /\ WF_vars(NoMonitors)
    /\ WF_vars(DiscoverSkip)
    /\ WF_vars(DiscoverCreate)
    /\ WF_vars(MainExit)
    /\ \A h \in Indexes :
          /\ WF_vars(Start(h))
          /\ WF_vars(LoopTest(h))
          /\ WF_vars(Wait(h))
          /\ SF_vars(ConnectOK(h))
          /\ SF_vars(ExecuteOK(h))
          /\ SF_vars(ForwardRow(h))
          /\ SF_vars(EndOfRows(h))

SupervisorLiveSpec == SupervisorInit /\ [][SupervisorNext]_vars /\ SupervisorFairness

----------------------------------------------------------------------------
(* Notions the properties are stated in *)

Absent == <<None, None>>

\* b is strictly after a in the (receiver, sequence) order; everything is
\* after the absent cursor
After(a, b) == a = Absent \/ KeyLess(a, b)

Keys(seq) == [i \in 1..Len(seq) |-> Key(seq[i].row)]

FailedOutcomes == {"ConnectionError", "QueryError", "DeliveryError"}

\* t is one of the comma-separated items of the string s, blanks ignored
ItemOf(s, t) ==
    \E a \in 1..Len(s) : \E b \in a..Len(s) :
       /\ a = 1 \/ s[a - 1] = ","
       /\ b = Len(s) \/ s[b + 1] = ","
       /\ \E k \in a..b :
             /\ s[k] = t
             /\ \A j \in (a..b) \ {k} : s[j] = " "

\* the configured entry-type filter is the empty set
EmptyFilter(s) == \A i \in 1..Len(s) : s[i] \in {",", " "}

\* a row the journal holds that has an event and passes the configured filter
Eligible(h, row) ==
    /\ row.syslog_event # NULL
    /\ EmptyFilter(env_types[h]) \/ ItemOf(env_types[h], row.journal_entry_type)

----------------------------------------------------------------------------
(* C1: within one run no journal entry is passed to logger.log twice, also *)
(* across cycles that fail.                                                *)
NoRedelivery ==
    \A h \in Hosts : \A i, j \in 1..Len(forwarded[h]) :
       i # j => Keys(forwarded[h])[i] # Keys(forwarded[h])[j]

(* C2: every journal entry that has an event and passes the entry-type     *)
(* filter is eventually passed to logger.log, unless the monitor is shut   *)
(* down; failed cycles in between do not make the monitor skip it.         *)
NoEntryDropped ==
    \A h \in Hosts : \A k \in Receivers \X Sequences :
       (\E row \in journal[h] : Key(row) = k /\ Eligible(h, row))
          ~> (k \in sent[h] \/ shutdown_event)

(* C3: a cycle that ends in a connection, query or delivery failure leaves *)
(* the bookmark as it was when the cycle began.                            *)
NoLossOnFailure ==
    \A h \in Hosts :
       outcome[h] \in FailedOutcomes => Bookmark(h) = cycle_bookmark[h]

\* a cycle failed after it had already forwarded a row beyond the bookmark
NoLossOnFailureWitness ==
    \E h \in Hosts :
       /\ outcome[h] \in {"QueryError", "DeliveryError"}
       /\ \E k \in sent[h] : After(Bookmark(h), k)
       /\ cycle_bookmark[h] # Absent

(* C4: in every step the bookmark is unchanged or replaced by a strictly   *)
(* greater value; the assignment at the end of a batch never stores a      *)
(* value equal to or below the current one, sequence number 0 included.    *)
CursorMonotonic ==
    [][\A h \in Hosts :
          /\ Bookmark(h)' # Bookmark(h) => After(Bookmark(h), Bookmark(h)')
          /\ (pc[h] = "Iterate" /\ outcome'[h] = "Delivered")
                => After(Bookmark(h), Bookmark(h)')]_vars

(* C5: whenever the bookmark changes, its new value is the key of the last *)
(* row of the batch and every row of the batch has been forwarded; the     *)
(* bookmark never names an entry that was not forwarded.                   *)
BookmarkAfterFullDelivery ==
    [][\A h \in Hosts :
          /\ Bookmark(h)' # Bookmark(h) =>
                /\ batch[h] # <<>>
                /\ Bookmark(h)' = Key(batch[h][Len(batch[h])])
                /\ \A i \in 1..Len(batch[h]) : Key(batch[h][i]) \in sent[h]
          /\ Bookmark(h)' # Absent => Bookmark(h)' \in sent'[h]]_vars

\* a batch of two rows was delivered and the bookmark is its second row
BookmarkAfterFullDeliveryWitness ==
    \E h \in Hosts :
       /\ outcome[h] = "Delivered"
       /\ Len(forwarded[h]) = 2
       /\ cycle_bookmark[h] = Absent
       /\ Bookmark(h) = Keys(forwarded[h])[2]

(* C6: the rows forwarded for one host, over all batches, are strictly     *)
(* increasing in the (receiver, sequence) order.                           *)
ForwardedIncreasing ==
    \A h \in Hosts : \A i \in 1..(Len(forwarded[h]) - 1) :
       KeyLess(Keys(forwarded[h])[i], Keys(forwarded[h])[i + 1])

(* C7: the fetch of a cycle returns exactly the eligible rows strictly     *)
(* after the bookmark when the bookmark is present, and all eligible rows  *)
(* when it is absent.                                                      *)
IdempotentResume ==
    [][\A h \in Hosts :
          (pc[h] = "Execute" /\ pc'[h] = "Iterate") =>
             {batch'[h][i] : i \in 1..Len(batch'[h])} =
                {row \in journal[h] :
                    Eligible(h, row) /\ After(Bookmark(h), Key(row))}]_vars

(* C8: with a non-empty entry-type filter no forwarded row has a type      *)
(* outside it; with an empty filter (a string of blanks and commas too) a  *)
(* fetch returns the rows of every type.                                   *)
FilterCorrect ==
    [][\A h \in Hosts :
          /\ \A i \in 1..Len(forwarded'[h]) :
                ~EmptyFilter(env_types[h]) =>
                   ItemOf(env_types[h], forwarded'[h][i].row.journal_entry_type)
          /\ (pc[h] = "Execute" /\ pc'[h] = "Iterate" /\ EmptyFilter(env_types[h]))
                => \A row \in journal[h] :
                      (row.syslog_event # NULL /\ CursorClause(h, row))
                         => \E i \in 1..Len(batch'[h]) : batch'[h][i] = row]_vars

\* under the filter "AF" an AF row was forwarded while the journal also
\* holds a CP row with an event
FilterCorrectWitness ==
    \E h \in Hosts :
       /\ env_types[h] = <<"AF">>
       /\ forwarded[h] # <<>>
       /\ \E row \in journal[h] :
             row.journal_entry_type = "CP" /\ row.syslog_event # NULL

(* C9: the start loop of a monitor exits only after the shutdown signal    *)
(* was set; no error ends the thread.                                      *)
StoppedOnlyByShutdown ==
    \A h \in Hosts : Terminated(h) => (shutdown_event /\ pc[h] = "Stopped")

(* C10: when logger.log raises in the middle of a batch the bookmark is    *)
(* not advanced and the monitor goes on to Waiting, from where the next    *)
(* cycle fetches the batch again.                                          *)
DeliveryFailureRecovers ==
    \A h \in Hosts :
       outcome[h] = "DeliveryError" =>
          (pc[h] = "Waiting" /\ Bookmark(h) = cycle_bookmark[h])

(* C12: a shutdown signal set while a monitor connects, fetches or         *)
(* delivers does not interrupt the batch: the thread stops only at the     *)
(* loop test between two cycles, with no batch in progress; under the      *)
(* signal each delivery step forwards the next row of the batch, a batch   *)
(* that reaches its end has all its rows forwarded and the bookmark on its *)
(* last row; and a thread that sees the signal at the loop test begins no  *)
(* new fetch.                                                              *)
NoMidBatchAbort ==
    [][\A h \in Hosts :
          /\ (pc'[h] = "Stopped" /\ pc[h] # "Stopped") =>
                /\ pc[h] = "LoopTest" /\ shutdown_event
                /\ batch[h] = <<>> /\ ~conn[h]
          /\ (shutdown_event /\ pc[h] = "LoopTest") => pc'[h] \notin {"Connect", "Execute", "Iterate"}
          /\ (shutdown_event /\ pc[h] = "Iterate" /\ pc'[h] = "Iterate"
                /\ count'[h] # count[h]) =>
                /\ count'[h] = count[h] + 1
                /\ Key(batch[h][count'[h]]) \in sent'[h]
                /\ batch'[h] = batch[h]
          /\ (shutdown_event /\ pc[h] = "Iterate" /\ batch[h] # <<>>
                /\ outcome'[h] = "Delivered") =>
                /\ \A i \in 1..Len(batch[h]) : Key(batch[h][i]) \in sent'[h]
                /\ Bookmark(h)' = Key(batch[h][Len(batch[h])])
                /\ pc'[h] = "Waiting"]_vars

\* the signal was set during a cycle (a thread that finds it set at the
\* loop test begins none) and the batch of two rows is half delivered
NoMidBatchAbortWitness ==
    \E h \in Hosts :
       /\ shutdown_event
       /\ pc[h] = "Iterate"
       /\ Len(batch[h]) = 2
       /\ count[h] = 1

\* the logger calls of the current cycle of host h that carry a journal entry
EntryCalls(h) == {i \in 1..Len(logged[h]) : logged[h][i].msg = "evt"}

(* C17: in a cycle whose connection attempt fails the failure is reported  *)
(* at critical severity and the syslog sink receives no message.           *)
ConnectFailureNotInSink ==
    \A h \in Hosts : outcome[h] = "ConnectionError" => logged[h] = <<>>

(* C18: a cycle in which the query returns no row leaves the bookmark as   *)
(* it was when the cycle began and sends no message to the syslog sink.    *)
EmptyBatchSilent ==
    \A h \in Hosts :
       outcome[h] = "Empty" =>
          (Bookmark(h) = cycle_bookmark[h] /\ logged[h] = <<>>)

\* a cycle with the bookmark on a delivered row found nothing new
EmptyBatchSilentWitness ==
    \E h \in Hosts :
       /\ outcome[h] = "Empty"
       /\ Bookmark(h) # Absent
       /\ Bookmark(h) \in sent[h]
       /\ pc[h] = "Waiting"

(* C19: when the query of a cycle fails, also while its rows are still     *)
(* being read, no entry of that cycle has been passed to the sink.         *)
FetchAllOrNothing ==
    \A h \in Hosts : outcome[h] = "QueryError" => EntryCalls(h) = {}

\* the translation table as the specification states it
TableLevel(sev) ==
    IF sev \in {0, 1, 2} THEN CRITICAL
    ELSE IF sev = 3 THEN ERROR
    ELSE IF sev = 4 THEN WARNING
    ELSE IF sev \in {5, 6} THEN INFO
    ELSE IF sev = 7 THEN DEBUG
    ELSE INFO

\* the last element of a non-empty sequence
Last(seq) == seq[Len(seq)]

(* C16: each journal entry is sent at the level the fixed table gives its  *)
(* severity code (0, 1, 2 CRITICAL; 3 ERROR; 4 WARNING; 5, 6 INFO;         *)
(* 7 DEBUG), any other code at INFO, by the daemon and by testing.py, and  *)
(* the two programs map every code to the same level.                      *)
SeverityTranslation ==
    [][/\ \A h \in Hosts :
             (pc[h] = "Iterate" /\ count'[h] = count[h] + 1) =>
                /\ Len(logged'[h]) = Len(logged[h]) + 1
                /\ Last(logged'[h]).level =
                      TableLevel(batch[h][count'[h]].syslog_severity)
                /\ Last(logged'[h]).msg = batch[h][count'[h]].syslog_event
       /\ (t_pc = "Iterate" /\ t_rows # <<>> /\ t_rows' = Tail(t_rows)) =>
             /\ Len(t_logged') = Len(t_logged) + 1
             /\ Last(t_logged').level = TableLevel(Head(t_rows).syslog_severity)
       /\ \A sev \in Severities : SeverityLevel(sev) = severity_map(sev)]_vars

\* the daemon has sent an entry whose severity code is not in the table,
\* at INFO
SeverityTranslationWitness ==
    \E h \in Hosts : \E i \in 1..Len(forwarded[h]) :
       /\ forwarded[h][i].row.syslog_severity \notin 0..7
       /\ forwarded[h][i].level = INFO
       /\ logged[h] # <<>> /\ Last(logged[h]) = LogCall(INFO, "evt")

(* C20: a connection that was opened is closed when the operation returns, *)
(* on every path: a monitor that is not inside _process_one_batch (idle,   *)
(* at the loop test, waiting, stopped or ended by an exception) has no     *)
(* open connection, testing.py has none when it has ended, and neither     *)
(* ever has more than one.                                                 *)
ConnectionsClosed ==
    /\ \A h \in Hosts :
          /\ open_conns[h] \in {0, 1}
          /\ pc[h] \notin {"Execute", "Iterate"} => open_conns[h] = 0
    /\ t_open \in {0, 1}
    /\ t_pc \in {"Idle", "Connect", "Exited"} => t_open = 0

\* a delivery that raised ended the monitor thread after a connection had
\* been opened for the cycle
ConnectionsClosedWitness ==
    \E h \in Hosts :
       /\ pc[h] = "Crashed"
       /\ outcome[h] = "DeliveryError"
       /\ open_conns[h] = 0

\* every index up to k has its host set
HostsSetUpTo(k) == \A j \in 1..k : TruthyStr(GetEnv(j).host)

\* index k is one the scan reaches and finds completely configured
ValidIndex(k) == HostsSetUpTo(k) /\ AllSet(k)

\* the main thread of the daemon is past the discovery loop
Discovered == program = "daemon" /\ mainpc # "discover"

(* C11: once the shutdown signal is set the main thread does not return    *)
(* (final message, exit) before every monitor thread has reached Stopped,  *)
(* and every monitor thread does reach Stopped and the main thread returns.*)
ShutdownJoins ==
    /\ [](shutdown_event /\ mainpc = "exited" =>
             \A i \in 1..Len(monitors) : pc[monitors[i]] = "Stopped")
    /\ (shutdown_event ~>
          (mainpc = "exited" /\ \A i \in 1..Len(monitors) : pc[monitors[i]] = "Stopped"))

\* the part of a monitor's state that belongs to host h alone
Local(h) ==
    <<last_receiver_name[h], last_sequence_number[h], journal_types[h],
      pc[h], conn[h], batch[h], count[h], last_row[h], open_conns[h]>>

\* the thread of host g, unless it has ended, can take its next step
CanContinue(g) ==
    /\ pc[g] = "LoopTest" => ENABLED LoopTest(g)
    /\ pc[g] = "Connect" => ENABLED ConnectOK(g)
    /\ pc[g] = "Execute" => ENABLED ExecuteOK(g)
    /\ pc[g] = "Iterate" => ENABLED (ForwardRow(g) \/ EndOfRows(g))
    /\ pc[g] = "Waiting" => ENABLED Wait(g)

(* C13: under every interleaving a step of one host's monitor, a           *)
(* connection, query or delivery failure or its termination included,      *)
(* leaves the bookmark and all other state of every other host's monitor   *)
(* unchanged, and whatever the other monitors have done, a monitor that    *)
(* has not ended can take the next step of its polling cycle.              *)
FailureIsolation ==
    /\ [](\A g \in Indexes : CanContinue(g))
    /\ [][\A h, g \in Indexes :
             (h # g /\ Local(h)' # Local(h)) =>
                (Local(g)' = Local(g) /\ Bookmark(g)' = Bookmark(g))]_vars

\* the thread of one host was ended by a delivery failure before it
\* delivered anything, and another host has delivered its batch and polls on
FailureIsolationWitness ==
    \E h, g \in Indexes :
       /\ h # g
       /\ pc[h] = "Crashed"
       /\ Bookmark(h) = Absent
       /\ Bookmark(g) = Key(FirstRow)
       /\ pc[g] = "Connect"
       /\ ~shutdown_event

(* C14: after the discovery loop there is a monitor for index k exactly    *)
(* when k is completely configured and every index 1..k has its host set,  *)
(* and only one; an error was logged for index k exactly when the indexes  *)
(* 1..k have their host set and k lacks user, password or driver; nothing  *)
(* at or after the first index without host is looked at.                  *)
ContiguousDiscovery ==
    Discovered =>
       /\ \A k \in Indexes :
             /\ (\E i \in 1..Len(monitors) : monitors[i] = k) <=> ValidIndex(k)
             /\ (\E i \in 1..Len(main_logged) : main_logged[i] = SkipCall(k))
                   <=> (HostsSetUpTo(k) /\ ~AllSet(k))
       /\ \A i, j \in 1..Len(monitors) : i < j => monitors[i] < monitors[j]
       /\ \A i \in 1..Len(monitors) : monitors[i] \in Indexes
       /\ ~TruthyStr(GetEnv(index).host)
       /\ HostsSetUpTo(index - 1)

\* index 1 was skipped with an error and index 2 got the only monitor
ContiguousDiscoveryWitness ==
    /\ Discovered
    /\ monitors = <<2>>
    /\ ~AllSet(1)
    /\ main_logged = <<LogCall(INFO, "Syslog handler configured"), SkipCall(1)>>

(* C15: when discovery finds no valid host configuration the daemon        *)
(* reports it, starts no monitor thread (no connection, no fetch), and     *)
(* exits with code 1; when it returns after its threads have ended it      *)
(* exits with code 0. testing.py exits with code 1, without connecting,    *)
(* when one of its four settings is missing.                               *)
NoConfigExits ==
    /\ (Discovered /\ \A k \in Indexes : ~ValidIndex(k)) =>
          /\ mainpc = "exited" /\ exit_code = 1
          /\ stderr # <<>>
          /\ \A h \in Indexes :
                pc[h] = "Idle" /\ open_conns[h] = 0 /\ forwarded[h] = <<>>
                   /\ logged[h] = <<>>
    /\ (Discovered /\ \E k \in Indexes : ValidIndex(k)) =>
          /\ exit_code \in {None, 0}
          /\ mainpc = "exited" <=> exit_code = 0
    /\ (program = "oneshot" /\ t_pc # "Idle" /\ ~TAllSet) =>
          /\ t_pc = "Exited" /\ t_exit = 1
          /\ stderr # <<>>
          /\ t_open = 0 /\ t_result = "unset"
    /\ (program = "oneshot" /\ TAllSet) => t_exit \in {None, 0}

\* the only index with a host lacks a setting: it was skipped and the
\* daemon has exited with code 1
NoConfigExitsWitness ==
    /\ program = "daemon"
    /\ exit_code = 1
    /\ TruthyStr(GetEnv(1).host)
    /\ \E i \in 1..Len(main_logged) : main_logged[i] = SkipCall(1)

====
